---- MODULE Spec2Model ----
(***************************************************************************)
(* State-machine model of src/elektrik_sebeke_akis.py: class               *)
(* ElektrikSebekesi (a networkx.DiGraph plus the sonuclar cache) and its   *)
(* operations dugum_ekle, hat_ekle, akis_ata, min_maliyet_akis_hesapla and *)
(* darbogazlari_bul.                                                       *)
(*                                                                         *)
(* The DiGraph is modelled as networkx stores it: a node dict and an       *)
(* adjacency dict, both insertion ordered, each with an attribute dict.    *)
(* Node ids are integers, quantities are integers; utilisation is an exact *)
(* fraction (binary floating-point rounding is outside the model).         *)
(***************************************************************************)
EXTENDS Integers, Sequences, FiniteSets, TLC

\* ------------------------------------------------------------------ bounds
MaxOps == 3           \* number of construction calls (dugum_ekle, hat_ekle, akis_ata)

NodeIds == {1, 2}                 \* dugum_id / kaynak / hedef arguments
MWDegerleri == {0, 1}             \* talep / uretim arguments of dugum_ekle
Kapasiteler == {0, 2}             \* kapasite argument of hat_ekle
Maliyetler == {2}                 \* maliyet argument of hat_ekle
IlkAkislar == {0, 1}              \* akis argument of hat_ekle (default 0)
AtananAkislar == {-1, 3}          \* akis_degeri argument of akis_ata
Esikler == {0, 50}                \* esik_yuzdesi argument of darbogazlari_bul

VARIABLES
    G_node,       \* G._node keys in insertion order: Seq(NodeIds)
    G_attr,       \* G._node values: node id -> attribute dict
    G_adj,        \* G._adj: node id -> successors in insertion order
    G_hat,        \* edge attribute dicts: <<u, v>> -> [kapasite, maliyet, akis]
    sonuclar,     \* self.sonuclar
    donus,        \* the last call: its name, arguments and what the caller gets back
    cikti,        \* what the last call printed ("" when nothing)
    islemSayisi   \* construction calls made so far

vars == <<G_node, G_attr, G_adj, G_hat, sonuclar, donus, cikti, islemSayisi>>

\* ----------------------------------------------------------------- helpers
EmptyFn == [x \in {} |-> 0]

Abs(x) == IF x < 0 THEN -x ELSE x

RECURSIVE Gcd(_, _)
Gcd(a, b) == IF b = 0 THEN a ELSE Gcd(b, a % b)

RECURSIVE SumOver(_, _)
\* sum of f[x] over the finite set S
SumOver(S, f) ==
    IF S = {} THEN 0
    ELSE LET x == CHOOSE y \in S : TRUE IN f[x] + SumOver(S \ {x}, f)

SeqToSet(s) == {s[i] : i \in DOMAIN s}

\* dict insertion: a new key goes last, an existing key keeps its place
KeyAdd(s, k) == IF k \in SeqToSet(s) THEN s ELSE Append(s, k)

\* the attribute dict networkx gives a node that add_edge creates: {}
BosOz == [dolu |-> FALSE, talep |-> 0, uretim |-> 0, net |-> 0, tip |-> ""]

\* ------------------------------------------------------------- dugum_ekle
DugumTipi(net_deger) ==
    IF net_deger > 0 THEN "kaynak"
    ELSE IF net_deger < 0 THEN "hedef"
    ELSE "transfer"

DugumOz(talep, uretim) ==
    [dolu |-> TRUE, talep |-> talep, uretim |-> uretim,
     net |-> uretim - talep, tip |-> DugumTipi(uretim - talep)]

\* the call record of an operation that returns self
SelfDonus(islem, arg) ==
    [islem |-> islem, arg |-> arg, firlatilan |-> "", akislar |-> EmptyFn,
     maliyet |-> 0, liste |-> <<>>, giris |-> EmptyFn]

dugum_ekle(dugum_id, talep, uretim) ==
    /\ islemSayisi < MaxOps
    /\ G_node' = KeyAdd(G_node, dugum_id)
    /\ G_attr' = [n \in DOMAIN G_attr \cup {dugum_id} |->
                    IF n = dugum_id THEN DugumOz(talep, uretim) ELSE G_attr[n]]
    /\ G_adj' = [n \in DOMAIN G_adj \cup {dugum_id} |->
                    IF n \in DOMAIN G_adj THEN G_adj[n] ELSE <<>>]
    /\ donus' = SelfDonus("dugum_ekle", <<>>)
    /\ cikti' = ""
    /\ islemSayisi' = islemSayisi + 1
    /\ UNCHANGED <<G_hat, sonuclar>>

\* --------------------------------------------------------------- hat_ekle
hat_ekle(kaynak, hedef, kapasite, maliyet, akis) ==
    /\ islemSayisi < MaxOps
    /\ G_node' = KeyAdd(KeyAdd(G_node, kaynak), hedef)
    /\ G_attr' = [n \in DOMAIN G_attr \cup {kaynak, hedef} |->
                    IF n \in DOMAIN G_attr THEN G_attr[n] ELSE BosOz]
    /\ G_adj' = [n \in DOMAIN G_adj \cup {kaynak, hedef} |->
                    LET eski == IF n \in DOMAIN G_adj THEN G_adj[n] ELSE <<>>
                    IN IF n = kaynak THEN KeyAdd(eski, hedef) ELSE eski]
    /\ G_hat' = [e \in DOMAIN G_hat \cup {<<kaynak, hedef>>} |->
                    IF e = <<kaynak, hedef>>
                    THEN [kapasite |-> kapasite, maliyet |-> maliyet, akis |-> akis]
                    ELSE G_hat[e]]
    /\ donus' = SelfDonus("hat_ekle", <<>>)
    /\ cikti' = ""
    /\ islemSayisi' = islemSayisi + 1
    /\ UNCHANGED sonuclar

\* --------------------------------------------------------------- akis_ata
has_edge(kaynak, hedef) == <<kaynak, hedef>> \in DOMAIN G_hat

akis_ata(kaynak, hedef, akis_degeri) ==
    /\ islemSayisi < MaxOps
    /\ IF has_edge(kaynak, hedef)
       THEN /\ G_hat' = [G_hat EXCEPT ![<<kaynak, hedef>>].akis = akis_degeri]
            /\ cikti' = ""
       ELSE /\ G_hat' = G_hat
            /\ cikti' = "hat bulunamadi"
    /\ donus' = SelfDonus("akis_ata", <<kaynak, hedef, akis_degeri>>)
    /\ islemSayisi' = islemSayisi + 1
    /\ UNCHANGED <<G_node, G_attr, G_adj, sonuclar>>

\* ------------------------------------------------ min_maliyet_akis_hesapla
\* self.G.edges(): for every node in node order, its successors in adjacency order
RECURSIVE EdgeSeqFrom(_, _, _)
EdgeSeqFrom(node, adj, i) ==
    IF i > Len(node) THEN <<>>
    ELSE [j \in 1..Len(adj[node[i]]) |-> <<node[i], adj[node[i]][j]>>]
         \o EdgeSeqFrom(node, adj, i + 1)

EdgeSeq(node, adj) == EdgeSeqFrom(node, adj, 1)

\* lines 79-86: the demand given to mcf_graph for a node whose attributes exist
McfDemand(oz) ==
    IF oz.tip = "kaynak" THEN -oz.net
    ELSE IF oz.tip = "hedef" THEN Abs(oz.net)
    ELSE 0

\* line 81: attr['tip'] on a node that add_edge created raises KeyError
KeyErrorRaised(node, attr) == \E i \in DOMAIN node : ~attr[node[i]].dolu

\* ---- networkx.network_simplex, by its contract -------------------------
\* net inflow of node n under flow f (self-loops cancel)
NetInflow(n, hat, f) ==
    SumOver({e \in DOMAIN hat : e[2] = n}, f) - SumOver({e \in DOMAIN hat : e[1] = n}, f)

FlowCost(hat, f) == SumOver(DOMAIN hat, [e \in DOMAIN hat |-> f[e] * hat[e].maliyet])

MaxCap(hat) ==
    IF DOMAIN hat = {} THEN 0
    ELSE CHOOSE c \in {hat[e].kapasite : e \in DOMAIN hat} :
            \A d \in {hat[e].kapasite : e \in DOMAIN hat} : d <= c

\* flows with 0 <= f <= capacity and inflow - outflow = demand at every node
FeasibleFlows(node, attr, hat) ==
    {f \in [DOMAIN hat -> 0..MaxCap(hat)] :
        /\ \A e \in DOMAIN hat : f[e] <= hat[e].kapasite
        /\ \A i \in DOMAIN node : NetInflow(node[i], hat, f) = McfDemand(attr[node[i]])}

OptimalFlow(node, attr, hat) ==
    CHOOSE f \in FeasibleFlows(node, attr, hat) :
        \A g \in FeasibleFlows(node, attr, hat) : FlowCost(hat, f) <= FlowCost(hat, g)

\* the exception network_simplex raises on mcf_graph, "" when it returns
SimplexError(node, attr, hat) ==
    IF Len(node) = 0 THEN "NetworkXError"
    ELSE IF SumOver(SeqToSet(node), [n \in SeqToSet(node) |-> McfDemand(attr[n])]) # 0
         THEN "NetworkXUnfeasible"
    ELSE IF \E e \in DOMAIN hat : hat[e].kapasite < 0 THEN "NetworkXUnfeasible"
    ELSE IF FeasibleFlows(node, attr, hat) = {} THEN "NetworkXUnfeasible"
    ELSE ""

\* flowDict: a dict keyed by node u whose value is a dict keyed by successor v
FlowDict(node, hat, f) ==
    [u \in SeqToSet(node) |-> [v \in {e[2] : e \in {d \in DOMAIN hat : d[1] = u}} |-> f[<<u, v>>]]]

\* line 97: (u, v) in flow_dict. The keys of flow_dict are single node ids, the
\* key looked up is a pair.
TupleInFlowDict(flow_dict, u, v) == <<u, v>> \in {<<n>> : n \in DOMAIN flow_dict}

\* variant of AkisAktar: an edge whose key is not found keeps its old flow
AkisAktar_EskiAkisKalir(hat, flow_dict) ==
    [e \in DOMAIN hat |->
        [hat[e] EXCEPT !.akis = IF TupleInFlowDict(flow_dict, e[1], e[2])
                                THEN flow_dict[e]
                                ELSE hat[e].akis]]

\* lines 96-100: the flows written back to self.G
AkisAktar(hat, flow_dict) ==
    [e \in DOMAIN hat |->
        [hat[e] EXCEPT !.akis = IF TupleInFlowDict(flow_dict, e[1], e[2])
                                THEN flow_dict[e]
                                ELSE 0]]

\* lines 103-107: akislar[u][v] = data['akis']
Akislar(hat) ==
    [u \in {e[1] : e \in DOMAIN hat} |->
        [v \in {e[2] : e \in {d \in DOMAIN hat : d[1] = u}} |-> hat[<<u, v>>].akis]]

AkisOf(hat) == [e \in DOMAIN hat |-> hat[e].akis]

\* variant of Cozum: the flows are cleared before the solver is called, so a
\* failing call leaves them cleared
Cozum_OnceSifirlar(node, attr, hat) ==
    LET hata == IF KeyErrorRaised(node, attr) THEN "KeyError"
                ELSE SimplexError(node, attr, hat)
        sifir == [e \in DOMAIN hat |-> [hat[e] EXCEPT !.akis = 0]]
    IN IF hata # ""
       THEN [hata |-> hata, hat |-> sifir, akislar |-> EmptyFn, maliyet |-> 0]
       ELSE LET f == OptimalFlow(node, attr, hat)
            IN [hata |-> "", hat |-> sifir, akislar |-> Akislar(sifir),
                maliyet |-> FlowCost(hat, f)]

\* the whole try block: hata is the exception caught at line 115 ("" when none),
\* hat the edge attributes when the call returns
Cozum(node, attr, hat) ==
    LET hata == IF KeyErrorRaised(node, attr) THEN "KeyError"
                ELSE SimplexError(node, attr, hat)
    IN IF hata # ""
       THEN [hata |-> hata, hat |-> hat, akislar |-> EmptyFn, maliyet |-> 0]
       ELSE LET f == OptimalFlow(node, attr, hat)
                yeni == AkisAktar(hat, FlowDict(node, hat, f))
            IN [hata |-> "", hat |-> yeni, akislar |-> Akislar(yeni),
                maliyet |-> FlowCost(hat, f)]

min_maliyet_akis_hesapla ==
    LET c == Cozum(G_node, G_attr, G_hat)
    IN /\ G_hat' = c.hat
       /\ sonuclar' = IF c.hata = ""
                      THEN [dolu |-> TRUE, akislar |-> c.akislar, toplam_maliyet |-> c.maliyet]
                      ELSE sonuclar
       /\ donus' = [islem |-> "min_maliyet_akis_hesapla", arg |-> <<>>, firlatilan |-> "",
                    akislar |-> c.akislar, maliyet |-> c.maliyet, liste |-> <<>>,
                    giris |-> AkisOf(G_hat)]
       /\ cikti' = c.hata
       /\ UNCHANGED <<G_node, G_attr, G_adj, islemSayisi>>

\* ------------------------------------------------------- darbogazlari_bul
\* (akis / kapasite) * 100 as an exact fraction in lowest terms, kapasite > 0
KullanimYuzdesi(akis, kapasite) ==
    LET g == Gcd(Abs(akis * 100), kapasite)
    IN [pay |-> (akis * 100) \div g, payda |-> kapasite \div g]

KesirGE(x, y) == x.pay * y.payda >= y.pay * x.payda

\* variant of Aday: the threshold test is strict
Aday_KesinBuyuk(hat, e, esik_yuzdesi) ==
    IF hat[e].kapasite > 0
    THEN LET k == KullanimYuzdesi(hat[e].akis, hat[e].kapasite)
         IN IF k.pay > esik_yuzdesi * k.payda
            THEN <<[hat |-> e, kapasite |-> hat[e].kapasite, akis |-> hat[e].akis,
                    kullanim_yuzdesi |-> k]>>
            ELSE <<>>
    ELSE <<>>

\* lines 134-142: the record appended for an edge, or nothing
Aday(hat, e, esik_yuzdesi) ==
    IF hat[e].kapasite > 0
    THEN LET k == KullanimYuzdesi(hat[e].akis, hat[e].kapasite)
         IN IF k.pay >= esik_yuzdesi * k.payda
            THEN <<[hat |-> e, kapasite |-> hat[e].kapasite, akis |-> hat[e].akis,
                    kullanim_yuzdesi |-> k]>>
            ELSE <<>>
    ELSE <<>>

RECURSIVE Adaylar(_, _, _, _)
Adaylar(es, hat, esik_yuzdesi, i) ==
    IF i > Len(es) THEN <<>>
    ELSE Aday(hat, es[i], esik_yuzdesi) \o Adaylar(es, hat, esik_yuzdesi, i + 1)

\* variant of SortedInsert: x goes before the records with an equal key
RECURSIVE SortedInsert_EsitOnce(_, _)
SortedInsert_EsitOnce(s, x) ==
    IF s = <<>> THEN <<x>>
    ELSE IF KesirGE(x.kullanim_yuzdesi, Head(s).kullanim_yuzdesi)
         THEN <<x>> \o s
         ELSE <<Head(s)>> \o SortedInsert_EsitOnce(Tail(s), x)

\* x goes before the first record whose key is smaller: equal keys keep their order
RECURSIVE SortedInsert(_, _)
SortedInsert(s, x) ==
    IF s = <<>> THEN <<x>>
    ELSE IF KesirGE(Head(s).kullanim_yuzdesi, x.kullanim_yuzdesi)
         THEN <<Head(s)>> \o SortedInsert(Tail(s), x)
         ELSE <<x>> \o s

\* line 145: list.sort(key=kullanim_yuzdesi, reverse=True), which is stable
RECURSIVE SortDesc(_, _)
SortDesc(s, i) == IF i = 0 THEN <<>> ELSE SortedInsert(SortDesc(s, i - 1), s[i])

Darbogazlar(node, adj, hat, esik_yuzdesi) ==
    LET l == Adaylar(EdgeSeq(node, adj), hat, esik_yuzdesi, 1) IN SortDesc(l, Len(l))

darbogazlari_bul(esik_yuzdesi) ==
    /\ donus' = [islem |-> "darbogazlari_bul", arg |-> <<esik_yuzdesi>>, firlatilan |-> "",
                 akislar |-> EmptyFn, maliyet |-> 0,
                 liste |-> Darbogazlar(G_node, G_adj, G_hat, esik_yuzdesi),
                 giris |-> EmptyFn]
    /\ cikti' = ""
    /\ UNCHANGED <<G_node, G_attr, G_adj, G_hat, sonuclar, islemSayisi>>

Init ==
    /\ G_node = <<>>
    /\ G_attr = EmptyFn
    /\ G_adj = EmptyFn
    /\ G_hat = EmptyFn
    /\ sonuclar = [dolu |-> FALSE, akislar |-> EmptyFn, toplam_maliyet |-> 0]
    /\ donus = SelfDonus("__init__", <<>>)
    /\ cikti = ""
    /\ islemSayisi = 0

DugumEkle == \E d \in NodeIds, t \in MWDegerleri, u \in MWDegerleri : dugum_ekle(d, t, u)

HatEkle ==
    \E k \in NodeIds, h \in NodeIds, kap \in Kapasiteler, m \in Maliyetler, a \in IlkAkislar :
        hat_ekle(k, h, kap, m, a)

AkisAta == \E k \in NodeIds, h \in NodeIds, a \in AtananAkislar : akis_ata(k, h, a)

DarbogazlariBul == \E esik \in Esikler : darbogazlari_bul(esik)

Next ==
    \/ DugumEkle
    \/ HatEkle
    \/ AkisAta
    \/ min_maliyet_akis_hesapla
    \/ DarbogazlariBul

Spec == Init /\ [][Next]_vars
\* ================================================================= claims
SolveDondu == donus.islem = "min_maliyet_akis_hesapla"
SolveBasarili == SolveDondu /\ cikti = ""
SolveBasarisiz == SolveDondu /\ cikti # ""
DarbogazDondu == donus.islem = "darbogazlari_bul"

AkisDegerleri == IlkAkislar \cup AtananAkislar \cup {0}

AkisKoy(hat, g) == [e \in DOMAIN hat |-> [hat[e] EXCEPT !.akis = g[e]]]

GraphUnchanged == UNCHANGED <<G_node, G_attr, G_adj, G_hat, sonuclar>>

\* C1: after a successful solve, at every node the flow entering minus the flow
\* leaving, taken from the flows stored on the edges, equals net = uretim - talep.
C1_NodeBalance ==
    SolveBasarili =>
        \A n \in DOMAIN G_attr : NetInflow(n, G_hat, AkisOf(G_hat)) = G_attr[n].net

\* C2: a solve on a graph whose total supply differs from its total demand ends
\* with InfeasibleNetworkError raised to the caller.
C2_UnbalancedRaises ==
    (/\ SolveDondu
     /\ \A n \in DOMAIN G_attr : G_attr[n].dolu
     /\ SumOver(DOMAIN G_attr, [n \in DOMAIN G_attr |-> G_attr[n].uretim])
          # SumOver(DOMAIN G_attr, [n \in DOMAIN G_attr |-> G_attr[n].talep]))
    => donus.firlatilan = "InfeasibleNetworkError"

\* C3: a solve that fails, for whatever reason, leaves the flow of every edge as
\* it was before the call.
C3_FailedSolveKeepsFlows ==
    [][(donus'.islem = "min_maliyet_akis_hesapla" /\ cikti' # "")
         => (DOMAIN G_hat' = DOMAIN G_hat /\ AkisOf(G_hat') = AkisOf(G_hat))]_vars

\* a solve failed on a graph whose edges carried non-zero flows, which are still there
C3_Witness ==
    /\ SolveBasarisiz
    /\ cikti = "NetworkXUnfeasible"
    /\ \E e \in DOMAIN G_hat : donus.giris[e] # 0 /\ G_hat[e].akis = donus.giris[e]

\* C4 as stated: whatever flows the edges carried before the call, a solve of the
\* same nodes, edges, capacities and costs returns the same assignment and cost
\* and leaves the same flows on the edges.
C4_SolveIgnoresFlows_Stated ==
    SolveDondu =>
        \A g \in [DOMAIN G_hat -> AkisDegerleri] :
            LET c == Cozum(G_node, G_attr, AkisKoy(G_hat, g))
            IN /\ c.akislar = donus.akislar
               /\ c.maliyet = donus.maliyet
               /\ c.hat = G_hat

\* C4 amended: whatever flows the edges carried before the call, a solve of the
\* same nodes, edges, capacities and costs has the same outcome and returns the
\* same assignment and cost; when it succeeds it leaves the same flows on the
\* edges, and when it fails it leaves on the edges the flows they carried.
C4_SolveIgnoresFlows ==
    SolveDondu =>
        \A g \in [DOMAIN G_hat -> AkisDegerleri] :
            LET c == Cozum(G_node, G_attr, AkisKoy(G_hat, g))
            IN /\ c.hata = cikti
               /\ c.akislar = donus.akislar
               /\ c.maliyet = donus.maliyet
               /\ IF cikti = "" THEN c.hat = G_hat
                  ELSE AkisOf(c.hat) = g /\ AkisOf(G_hat) = donus.giris

\* a solve succeeded on a graph with a positive net flow to carry whose edges
\* held manually set, non-zero flows
C4_Witness ==
    /\ SolveBasarili
    /\ donus.maliyet > 0
    /\ \E e \in DOMAIN G_hat : donus.giris[e] # 0

\* C5: after a successful solve every edge, zero-capacity edges included, has
\* 0 <= akis <= kapasite, whatever flows the edges carried before.
C5_CapacityRespected ==
    SolveBasarili =>
        \A e \in DOMAIN G_hat : 0 <= G_hat[e].akis /\ G_hat[e].akis <= G_hat[e].kapasite

\* a solve succeeded on a graph whose zero-capacity edge had been given, with
\* akis_ata, a flow above its capacity
C5_Witness ==
    /\ SolveBasarili
    /\ \E e \in DOMAIN G_hat : G_hat[e].kapasite = 0 /\ donus.giris[e] = 3

\* C6: hat_ekle with an endpoint that dugum_ekle never added adds no edge, so the
\* endpoints of every edge are nodes with attributes given by dugum_ekle.
C6_EdgeEndpointsKnown ==
    \A e \in DOMAIN G_hat : G_attr[e[1]].dolu /\ G_attr[e[2]].dolu

\* C7: akis_ata on a pair that has no edge ends with EdgeNotFoundError raised to
\* the caller.
C7_MissingEdgeRaises ==
    (donus.islem = "akis_ata" /\ <<donus.arg[1], donus.arg[2]>> \notin DOMAIN G_hat)
    => donus.firlatilan = "EdgeNotFoundError"

\* what darbogazlari_bul returned, against the edges of the graph
C8_ListMatches ==
    DarbogazDondu =>
        LET l == donus.liste
            esik == donus.arg[1]
        IN /\ \A e \in DOMAIN G_hat :
                Cardinality({i \in DOMAIN l : l[i].hat = e})
                  = IF G_hat[e].kapasite > 0 /\ G_hat[e].akis * 100 >= esik * G_hat[e].kapasite
                    THEN 1 ELSE 0
           /\ \A i \in DOMAIN l :
                /\ l[i].hat \in DOMAIN G_hat
                /\ l[i].kapasite = G_hat[l[i].hat].kapasite
                /\ l[i].akis = G_hat[l[i].hat].akis
                /\ l[i].kullanim_yuzdesi.payda > 0
                /\ l[i].kullanim_yuzdesi.pay * l[i].kapasite
                     = l[i].akis * 100 * l[i].kullanim_yuzdesi.payda

\* C8: darbogazlari_bul returns exactly one record for every edge with
\* kapasite > 0 and akis / kapasite * 100 >= esik and none for any other edge;
\* a record carries the edge, its capacity, flow and utilisation; the call
\* changes no node, edge, flow or stored result.
C8_Bottlenecks ==
    /\ []C8_ListMatches
    /\ [][donus'.islem = "darbogazlari_bul" => GraphUnchanged]_vars

\* the list holds an edge at exactly the threshold and leaves out a zero-capacity
\* edge that carries flow and an edge below the threshold
C8_Witness ==
    /\ DarbogazDondu
    /\ donus.arg[1] = 50
    /\ \E i \in DOMAIN donus.liste : donus.liste[i].akis = 1 /\ donus.liste[i].kapasite = 2
    /\ \E e \in DOMAIN G_hat : G_hat[e].kapasite = 0 /\ G_hat[e].akis > 0
    /\ \E e \in DOMAIN G_hat : G_hat[e].kapasite > 0 /\ G_hat[e].akis <= 0

KesirEq(x, y) == KesirGE(x, y) /\ KesirGE(y, x)

PairLess(a, b) == a[1] < b[1] \/ (a[1] = b[1] /\ a[2] < b[2])

\* position of edge e in self.G.edges()
EdgeIndex(e) ==
    CHOOSE i \in DOMAIN EdgeSeq(G_node, G_adj) : EdgeSeq(G_node, G_adj)[i] = e

\* C9 as stated: the list is ordered by utilisation descending and records with
\* equal utilisation are ordered by their (from, to) pair.
C9_TiesByIdentity ==
    DarbogazDondu =>
        \A i \in DOMAIN donus.liste : \A j \in DOMAIN donus.liste :
            i < j =>
                /\ KesirGE(donus.liste[i].kullanim_yuzdesi, donus.liste[j].kullanim_yuzdesi)
                /\ KesirEq(donus.liste[i].kullanim_yuzdesi, donus.liste[j].kullanim_yuzdesi)
                     => PairLess(donus.liste[i].hat, donus.liste[j].hat)

\* C9 amended: the list is ordered by utilisation descending and records with
\* equal utilisation are in the order in which the graph enumerates its edges
\* (source nodes in the order they were first added, the edges of one source in
\* the order they were first added).
C9_TiesByEnumeration ==
    DarbogazDondu =>
        \A i \in DOMAIN donus.liste : \A j \in DOMAIN donus.liste :
            i < j =>
                /\ KesirGE(donus.liste[i].kullanim_yuzdesi, donus.liste[j].kullanim_yuzdesi)
                /\ KesirEq(donus.liste[i].kullanim_yuzdesi, donus.liste[j].kullanim_yuzdesi)
                     => EdgeIndex(donus.liste[i].hat) < EdgeIndex(donus.liste[j].hat)

\* the list holds two records of equal utilisation, the edge added first ahead of
\* the edge with the smaller pair, and a record of higher utilisation before both
C9_Witness ==
    /\ DarbogazDondu
    /\ Len(donus.liste) = 3
    /\ ~KesirGE(donus.liste[2].kullanim_yuzdesi, donus.liste[1].kullanim_yuzdesi)
    /\ KesirEq(donus.liste[2].kullanim_yuzdesi, donus.liste[3].kullanim_yuzdesi)
    /\ PairLess(donus.liste[3].hat, donus.liste[2].hat)

\* C10: after a successful solve the cost returned and stored in sonuclar equals
\* the sum of akis * maliyet over the flows written on the edges, which are the
\* flows of the returned assignment.
C10_CostMatchesFlows ==
    SolveBasarili =>
        /\ donus.akislar = Akislar(G_hat)
        /\ donus.maliyet = FlowCost(G_hat, AkisOf(G_hat))
        /\ sonuclar.toplam_maliyet = FlowCost(G_hat, AkisOf(G_hat))
====
